---- MODULE Spec2Model ----
(***************************************************************************)
(* The RAG query / ingestion core of the AI deployment platform backend:   *)
(* RAGService (services/rag_service.py), DocumentService                   *)
(* (services/document_service.py), LLMService (services/llm_service.py),   *)
(* RedisCache (core/redis.py) and the /rag routes (api/routes/rag.py);     *)
(* and its collaborators: the deployment routes and DeploymentService, the *)
(* RateLimiter (core/redis.py) and the authentication dependencies         *)
(* (api/dependencies.py, core/security.py).                                *)
(*                                                                         *)
(* The specifications share the variables:                                 *)
(*   Spec        - synchronous and streamed queries over the response cache*)
(*   SpecIngest  - document ingestion and deletion                         *)
(*   SpecRetry   - one file submitted again after a failed ingestion       *)
(*   SpecOps     - direct calls of the provider interface and add_chunks   *)
(*   SpecCache   - direct calls of RedisCache.set / get, and ttl expiry    *)
(*   SpecChunker - direct calls of the chunker, its loop step by step      *)
(*   SpecDeploy  - deployment requests in concurrent sessions, the worker  *)
(*   SpecConcurrent - concurrent ingestions into one collection            *)
(*   SpecRace    - concurrent ingestions and deletions of their documents  *)
(*   SpecRate    - concurrent rate-limit calls and the counter's expiry    *)
(*   SpecAuth    - requests to protected endpoints, every kind of token    *)
(***************************************************************************)
EXTENDS Integers, Sequences, FiniteSets, TLC

VARIABLES
    provider,    \* settings.default_llm_provider
    clients,     \* the provider clients LLMService._init_clients created
    points,      \* the vector store: the set of points of all collections
    documents,   \* the committed Document rows, by document id
    tmpfiles,    \* the temporary files that exist on disk
    nextDoc,     \* the next fresh document id (uuid4)
    inflight,    \* the process_document call between its two commits
    ires,        \* what the last process_document / delete_document call did
    cache,       \* the redis response cache: key -> [value, ttl]
    qres,        \* what the last RAGService.query call did
    stream,      \* the streamed query in flight and what its client received
    ores,        \* what the last direct call of a service operation did
    chunker,     \* the _chunk_text call in progress: its loop variables
    deployments, \* the committed Deployment rows, by deployment id
    dreqs,       \* the deployment requests between their select and commit
    dres,        \* what the last finished deployment request did
    ratekey,     \* the redis rate-limit counter key of one identifier
    rcalls,      \* the rate-limit calls between their GET and their write
    admitted,    \* the calls admitted since the counter key was last absent
    rres,        \* what the last finished rate-limit call returned
    ares,        \* what the last request to a protected endpoint got
    tasks        \* the concurrent process_document calls, by document id

vars == <<provider, clients, points, documents, tmpfiles, nextDoc, inflight, ires,
          cache, qres, stream, ores, chunker, deployments, dreqs, dres,
          ratekey, rcalls, admitted, rres, ares, tasks>>

configVars == <<provider, clients>>
ingestVars == <<points, documents, tmpfiles, nextDoc, inflight, ires>>
queryVars  == <<cache, qres, stream>>
opVars     == <<ores, chunker>>
deployVars == <<deployments, dreqs, dres>>
rateVars   == <<ratekey, rcalls, admitted, rres>>
extVars    == <<deployVars, rateVars, ares, tasks>>

(***************************************************************************)
(* Bounds of the model and constants of the program.                       *)
(***************************************************************************)
MaxFragments == 2        \* text fragments one generation stream delivers
MaxDocs == 1             \* documents uploaded in one behaviour
MaxAttempts == 2         \* submissions of one file, the first one included

RagCacheTtl == 3600      \* ttl=3600 of RAGService.query's cache.set
RedisCacheTtl == 3600    \* settings.redis_cache_ttl
UploadMaxSizeMb == 50    \* settings.upload_max_size_mb
ChunkSize == 1000        \* chunk_size=1000 in process_document
ChunkOverlap == 200      \* chunk_overlap=200 in process_document

NoValue == "None"        \* Python's None for an optional string

Providers == {"mock", "gemini", "openai", "anthropic", "unknown"}
Hosted == {"gemini", "openai", "anthropic"}

Queries == {"q1", "q2"}
Collections == {"c1", "c2"}
TopKs == {1, 5}
ScoreThresholds == {0, 7}          \* in tenths: 0.0 and the default 0.7
Models == {NoValue, "m1"}
SystemPrompts == {NoValue, "sp"}
Answers == {"a1"}                  \* the text a generation call returns
Users == {"u1", "u2"}
Embeddings == {"e1", "e2"}         \* the vectors an embedding call may return

\* The number of fields in which two records of the same shape differ.
Differences(a, b) == Cardinality({f \in DOMAIN a : a[f] # b[f]})

\* The defaults of the optional fields of RAGQuery (api/models/rag.py).
DefaultParams ==
    [top_k |-> 5, score_threshold |-> 7, model |-> NoValue,
     system_prompt |-> NoValue]

\* The parameter values the model draws: the defaults with at most one changed.
Params ==
    {p \in [top_k : TopKs, score_threshold : ScoreThresholds, model : Models,
            system_prompt : SystemPrompts] : Differences(p, DefaultParams) <= 1}

\* RAGQuery: the request values a query carries.
RAGQuery ==
    {[query |-> q, collection_name |-> c, top_k |-> p.top_k,
      score_threshold |-> p.score_threshold, model |-> p.model,
      system_prompt |-> p.system_prompt]
        : q \in Queries, c \in Collections, p \in Params}

(***************************************************************************)
(* Provider abstraction (LLMService).  Each operator gives the set of ways *)
(* the call can end under the configuration: "ok" or "raise".  A hosted    *)
(* provider with a client may still fail upstream.                         *)
(***************************************************************************)
Upstream(key) == IF key \in clients THEN {"ok", "raise"} ELSE {"raise"}

\* LLMService.generate: the provider key selects the branch.
GenerateOutcomes ==
    CASE provider = "mock" -> {"ok"}
      [] provider \in Hosted -> Upstream(provider)
      [] OTHER -> {"raise"}

\* The model name a generation result reports: model or the provider default.
ModelUsed(model) ==
    IF model # NoValue THEN model
    ELSE CASE provider = "mock" -> "mock-model-v1"
           [] provider = "gemini" -> "gemini-1.5-flash"
           [] provider = "openai" -> "gpt-4-turbo-preview"
           [] provider = "anthropic" -> "claude-3-opus-20240229"
           [] OTHER -> NoValue

\* LLMService.create_embedding: "openai" uses the OpenAI client; every other
\* key goes to _create_embedding_gemini, which reads the undefined global
\* genai (the module imports google.genai, never a name genai).
CreateEmbeddingOutcomes ==
    IF provider = "openai" THEN Upstream("openai") ELSE {"raise"}

\* LLMService.create_embeddings_batch: the gemini branch reads the undefined
\* genai, the openai branch needs its client, any other key is a ValueError.
CreateEmbeddingsBatchOutcomes ==
    IF provider = "openai" THEN Upstream("openai") ELSE {"raise"}

\* LLMService.generate_stream: what the stream can do next.  "gemini" reads
\* the missing attribute self.gemini_model, "mock" and unknown keys are a
\* ValueError, "openai" and "anthropic" stream when their client exists.
GenerateStreamSteps(sent) ==
    IF provider \in {"openai", "anthropic"} /\ provider \in clients
    THEN (IF sent < MaxFragments THEN {"fragment"} ELSE {}) \cup {"end", "raise"}
    ELSE {"raise"}

(***************************************************************************)
(* Vector store (qdrant) and retrieval.                                    *)
(***************************************************************************)
\* Mutation of PointId: the chunk index alone, whatever the document.
PointIdByIndex(document_id, chunk_index) == <<0, chunk_index>>

\* The point id add_chunks derives: md5 of "<document_id>_<chunk_index>".
PointId(document_id, chunk_index) == <<document_id, chunk_index>>

\* The PointStruct of one chunk: its id, its embedding, its payload.
Point(collection, document_id, chunk_index, vector) ==
    [collection |-> collection, id |-> PointId(document_id, chunk_index),
     vector |-> vector,
     document_id |-> [type |-> "str", v |-> document_id],
     chunk_index |-> chunk_index]

\* Mutation of Upsert: an insert that keeps the points already stored.
UpsertInsert(store, batch) == store \cup batch

\* qdrant upsert: a point replaces the point of the same id in the collection.
Upsert(store, batch) ==
    {p \in store : ~ \E b \in batch : b.collection = p.collection /\ b.id = p.id}
        \cup batch

\* The similarity (in tenths) the store computes between a query and a point.
Score(query, p) ==
    IF query = "q1" THEN 9 - 2 * p.chunk_index ELSE 6 - 2 * p.chunk_index

\* RetrievedChunk(...): pydantic turns the payload's document_id into a UUID.
RetrievedChunk(query, p) ==
    [document_id |-> [type |-> "UUID", v |-> p.document_id.v],
     chunk_index |-> p.chunk_index, score |-> Score(query, p)]

RECURSIVE Ranked(_, _)
\* The points of S in descending score order.
Ranked(query, S) ==
    IF S = {} THEN <<>>
    ELSE LET best == CHOOSE p \in S :
                        \A r \in S : \/ Score(query, r) < Score(query, p)
                                     \/ (Score(query, r) = Score(query, p)
                                         /\ r.id[1] >= p.id[1])
         IN <<best>> \o Ranked(query, S \ {best})

Take(s, n) == SubSeq(s, 1, IF Len(s) < n THEN Len(s) ELSE n)

\* The qdrant search of RAGService.search: the points of the collection with
\* score >= score_threshold, best first, at most top_k of them.
SearchChunks(store, qd) ==
    LET hits == {p \in store : /\ p.collection = qd.collection_name
                               /\ Score(qd.query, p) >= qd.score_threshold}
        ranked == Take(Ranked(qd.query, hits), qd.top_k)
    IN [i \in 1..Len(ranked) |-> RetrievedChunk(qd.query, ranked[i])]

\* RAGService.search: the query embedding first, then the store search.
SearchOutcomes(store, qd) ==
    {[ok |-> o = "ok",
      chunks |-> IF o = "ok" THEN SearchChunks(store, qd) ELSE <<>>]
        : o \in CreateEmbeddingOutcomes}

(***************************************************************************)
(* Response cache (RedisCache) and JSON.                                   *)
(***************************************************************************)
MD5(s) == "md5(" \o s \o ")"

\* RAGService.query's cache_key: "rag:" and the md5 of "<query>:<collection>".
CacheKey(qd) == "rag:" \o MD5(qd.query \o ":" \o qd.collection_name)

\* RedisCache._make_key
MakeKey(key) == "cache:" \o key

\* A Python value that is no dict: its type and its value written as text
\* (the int 123 is Scalar("int", "123"), the str "123" is Scalar("str", "123")).
\* A dict is a function from its keys; it has no key "py".
Scalar(type, v) == [py |-> type, v |-> v]

IsScalar(value) == "py" \in DOMAIN value

\* json.dumps raises TypeError on a value that holds a UUID object.
JsonSerializable(value) ==
    "chunks" \in DOMAIN value =>
        \A i \in DOMAIN value.chunks : value.chunks[i].document_id.type # "UUID"

\* The texts that are JSON numbers.
JsonNumberTexts == {"0", "123"}

\* What redis stores for a value handed to it unencoded: a str as it is, an
\* int as its repr (redis-py refuses bool and None with DataError).
RedisEncode(value) == value.v

\* A stored text is the json.dumps of a dict, or the text redis was handed.
JsonDumps(value) == [json |-> value]

\* json.loads of a stored text, and on JSONDecodeError the text itself.
JsonLoads(text) ==
    IF "json" \in DOMAIN text THEN text.json
    ELSE IF text.raw \in JsonNumberTexts
         THEN Scalar("int", text.raw)
         ELSE Scalar("str", text.raw)

\* Python truthiness of a dict: non-empty.
Truthy(value) == DOMAIN value # {}

\* Python truthiness of the str redis returns: non-empty.
TruthyText(text) == "json" \in DOMAIN text \/ text.raw # ""

\* RedisCache.get: the decoded value under the prefixed key, or None.
CacheGet(c, key) ==
    IF MakeKey(key) \in DOMAIN c /\ TruthyText(c[MakeKey(key)].value)
    THEN [found |-> TRUE, value |-> JsonLoads(c[MakeKey(key)].value)]
    ELSE [found |-> FALSE, value |-> <<>>]

\* RedisCache.set raises: json.dumps on a dict it cannot encode, or redis-py
\* on a bool or None.
CacheSetRaises(value) ==
    IF IsScalar(value) THEN value.py \in {"bool", "NoneType"}
    ELSE ~ JsonSerializable(value)

\* RedisCache.set: ttl or settings.redis_cache_ttl; a dict json-encoded, any
\* other value handed to redis as it is.
CacheSet(c, key, value, ttl) ==
    LET entry == [value |-> IF IsScalar(value)
                            THEN [raw |-> RedisEncode(value)]
                            ELSE JsonDumps(value),
                  ttl |-> IF ttl # 0 THEN ttl ELSE RedisCacheTtl]
    IN [k \in DOMAIN c \cup {MakeKey(key)} |->
            IF k = MakeKey(key) THEN entry ELSE c[k]]

\* RAGResponse.model_dump(): python mode keeps every field value as it is.
ModelDump(resp) == resp

\* RAGResponse(**cached, cached=True): a keyword given twice is a TypeError.
RAGResponseFromCache(cached) ==
    IF "cached" \in DOMAIN cached
    THEN [ok |-> FALSE, resp |-> cached]
    ELSE [ok |-> TRUE,
          resp |-> [k \in DOMAIN cached \cup {"cached"} |->
                        IF k = "cached" THEN TRUE ELSE cached[k]]]

NoResp ==
    [answer |-> NoValue, query |-> NoValue, chunks |-> <<>>,
     model_used |-> NoValue, cached |-> FALSE]

\* The RAGResponse query() builds on its cache-miss path.
RAGResponse(qd, chunks, answer) ==
    [answer |-> answer, query |-> qd.query, chunks |-> chunks,
     model_used |-> ModelUsed(qd.model), cached |-> FALSE]

NoQuery ==
    [called |-> FALSE, query |-> NoValue, collection_name |-> NoValue,
     key |-> NoValue, hit |-> FALSE, stale |-> FALSE, stored |-> NoResp, outcome |-> "none",
     resp |-> NoResp, retrieved |-> <<>>, calls |-> <<>>]

\* The stored response is not what the call's own parameters would produce.
Stale(store, qd, stored) ==
    \/ stored.chunks # SearchChunks(store, qd)
    \/ stored.model_used # ModelUsed(qd.model)

\* The record of one query() call: whether it hit the cache (and whether the
\* entry was stale for its parameters), how it ended, what it called.
QueryResult(qd, hit, stored, outcome, resp, retrieved, calls) ==
    [called |-> TRUE, query |-> qd.query, collection_name |-> qd.collection_name,
     key |-> CacheKey(qd), hit |-> hit,
     stale |-> hit /\ Stale(points, qd, stored), stored |-> stored, outcome |-> outcome,
     resp |-> resp, retrieved |-> retrieved, calls |-> calls]

(***************************************************************************)
(* RAGService.query: the synchronous query, one whole call.                *)
(***************************************************************************)
\* llm_service.generate as query() calls it (no cache_key): a result or raise.
GenerateResults(qd) ==
    {[ok |-> FALSE, response |-> NoValue, model |-> NoValue] : o \in GenerateOutcomes \ {"ok"}}
    \cup {[ok |-> TRUE, response |-> a, model |-> ModelUsed(qd.model)]
            : a \in IF "ok" \in GenerateOutcomes THEN Answers ELSE {}}

\* Lines 203-205: the entry under the key is truthy, the response is rebuilt.
QueryHit(qd, stored) ==
    LET r == RAGResponseFromCache(stored)
    IN /\ qres' = QueryResult(qd, TRUE, stored,
                              IF r.ok THEN "ok" ELSE "raise",
                              IF r.ok THEN r.resp ELSE NoResp,
                              <<>>, <<"cache.get">>)
       /\ cache' = cache

\* Lines 246-261: the response is built, cached with the fixed ttl, returned.
QueryRespond(qd, chunks, answer) ==
    LET resp == RAGResponse(qd, chunks, answer)
        dump == ModelDump(resp)
        calls == <<"cache.get", "search", "generate", "cache.set">>
    IN IF JsonSerializable(dump)
       THEN /\ cache' = CacheSet(cache, CacheKey(qd), dump, RagCacheTtl)
            /\ qres' = QueryResult(qd, FALSE, NoResp, "ok", resp, chunks, calls)
       ELSE /\ cache' = cache
            /\ qres' = QueryResult(qd, FALSE, NoResp, "raise", NoResp, chunks, calls)

\* Mutation of QueryMiss: a failed generation leaves an empty response in
\* the cache.
QueryMissCaching(qd) ==
    \E s \in SearchOutcomes(points, qd) :
        IF ~ s.ok
        THEN /\ qres' = QueryResult(qd, FALSE, NoResp, "raise", NoResp, <<>>,
                                    <<"cache.get", "search">>)
             /\ cache' = cache
        ELSE \E g \in GenerateResults(qd) :
                IF ~ g.ok
                THEN /\ qres' = QueryResult(qd, FALSE, NoResp, "raise", NoResp,
                                            s.chunks,
                                            <<"cache.get", "search", "generate">>)
                     /\ cache' = CacheSet(cache, CacheKey(qd),
                                          ModelDump(RAGResponse(qd, <<>>, NoValue)),
                                          RagCacheTtl)
                ELSE QueryRespond(qd, s.chunks, g.response)

\* Lines 207-242: retrieval, then generation; either may raise to the caller.
QueryMiss(qd) ==
    \E s \in SearchOutcomes(points, qd) :
        IF ~ s.ok
        THEN /\ qres' = QueryResult(qd, FALSE, NoResp, "raise", NoResp, <<>>,
                                    <<"cache.get", "search">>)
             /\ cache' = cache
        ELSE \E g \in GenerateResults(qd) :
                IF ~ g.ok
                THEN /\ qres' = QueryResult(qd, FALSE, NoResp, "raise", NoResp,
                                            s.chunks,
                                            <<"cache.get", "search", "generate">>)
                     /\ cache' = cache
                ELSE QueryRespond(qd, s.chunks, g.response)

Query(qd) ==
    /\ LET got == CacheGet(cache, CacheKey(qd))
       IN IF got.found /\ Truthy(got.value)
          THEN QueryHit(qd, got.value)
          ELSE QueryMiss(qd)
    /\ UNCHANGED <<extVars, configVars, opVars, ingestVars, stream>>

\* Redis drops an entry when its ttl has run out.
Expire(k) ==
    /\ k \in DOMAIN cache
    /\ cache' = [j \in DOMAIN cache \ {k} |-> cache[j]]
    /\ UNCHANGED <<extVars, configVars, opVars, ingestVars, qres, stream>>

(***************************************************************************)
(* RAGService.query_stream behind POST /rag/query/stream.  stream.events   *)
(* are the RAGStreamChunk events the client has received, stream.sentinel  *)
(* says whether the route's closing "data: [DONE]" line was sent,          *)
(* stream.failed names the call that raised and stream.raised says whether *)
(* the exception left the generator.                                       *)
(***************************************************************************)
Event(type, chunks, content) ==
    [type |-> type, chunks |-> chunks, content |-> content]

NoStream ==
    [pc |-> "idle", query |-> NoValue, collection_name |-> NoValue,
     retrieved |-> <<>>, events |-> <<>>, sent |-> 0, failed |-> "none",
     raised |-> FALSE, sentinel |-> FALSE]

\* Lines 268-281: the one retrieval, then the "sources" event.
QueryStreamStart(qd) ==
    /\ stream.pc # "open"
    /\ \E s \in SearchOutcomes(points, qd) :
          stream' = [pc |-> IF s.ok THEN "open" ELSE "closed",
                     query |-> qd.query, collection_name |-> qd.collection_name,
                     retrieved |-> s.chunks,
                     events |-> IF s.ok
                                THEN <<Event("sources", s.chunks, NoValue)>>
                                ELSE <<>>,
                     sent |-> 0, failed |-> IF s.ok THEN "none" ELSE "search",
                     raised |-> ~ s.ok, sentinel |-> FALSE]
    /\ UNCHANGED <<extVars, configVars, opVars, ingestVars, cache, qres>>

\* Lines 300-307: one text fragment of the generation becomes a "chunk" event.
QueryStreamFragment ==
    /\ stream.pc = "open"
    /\ "fragment" \in GenerateStreamSteps(stream.sent)
    /\ stream' = [stream EXCEPT
                    !.events = Append(@, Event("chunk", <<>>, "text")),
                    !.sent = @ + 1]
    /\ UNCHANGED <<extVars, configVars, opVars, ingestVars, cache, qres>>

\* Mutation of QueryStreamDone: a query_stream that caches what it streamed
\* under the synchronous query's key.
QueryStreamDoneCaching ==
    /\ stream.pc = "open"
    /\ "end" \in GenerateStreamSteps(stream.sent)
    /\ stream' = [stream EXCEPT
                    !.events = Append(@, Event("done", <<>>, NoValue)),
                    !.pc = "closed", !.sentinel = TRUE]
    /\ cache' = CacheSet(cache,
                         "rag:" \o MD5(stream.query \o ":" \o stream.collection_name),
                         [NoResp EXCEPT !.query = stream.query], RagCacheTtl)
    /\ UNCHANGED <<extVars, configVars, opVars, ingestVars, qres>>

\* Line 310 and the route's line 216: "done", then the closing [DONE] line.
QueryStreamDone ==
    /\ stream.pc = "open"
    /\ "end" \in GenerateStreamSteps(stream.sent)
    /\ stream' = [stream EXCEPT
                    !.events = Append(@, Event("done", <<>>, NoValue)),
                    !.pc = "closed", !.sentinel = TRUE]
    /\ UNCHANGED <<extVars, configVars, opVars, ingestVars, cache, qres>>

\* Lines 300-306: generate_stream raises; nothing in query_stream or in the
\* route catches it, so the generator ends with the exception.
QueryStreamRaise ==
    /\ stream.pc = "open"
    /\ "raise" \in GenerateStreamSteps(stream.sent)
    /\ stream' = [stream EXCEPT !.pc = "closed", !.failed = "generate",
                                 !.raised = TRUE]
    /\ UNCHANGED <<extVars, configVars, opVars, ingestVars, cache, qres>>

(***************************************************************************)
(* DocumentService: the chunker and process_document, and the route        *)
(* DELETE /rag/documents/{id}.  A text is its number of words; a chunk is  *)
(* the window [start, stop) of word offsets it holds.                      *)
(***************************************************************************)
UploadMaxBytes == UploadMaxSizeMb * 1024 * 1024

FileSizes == {UploadMaxBytes, UploadMaxBytes + 1}
WordCounts == {ChunkSize, ChunkSize + 1}    \* one chunk, two chunks

\* Mutation of SizeRejected: the limit taken one byte too large.
SizeRejectedLate(size) == size > UploadMaxBytes + 1

\* Lines 41-42: the size check of process_document.
SizeRejected(size) == size > UploadMaxBytes

Min(a, b) == IF a < b THEN a ELSE b

RECURSIVE ChunkWindows(_, _, _, _, _)
\* The while loop of _chunk_text (lines 234-252).
ChunkWindows(n, chunk_size, chunk_overlap, start, chunk_index) ==
    IF start < n
    THEN <<[chunk_index |-> chunk_index, start |-> start,
            stop |-> Min(start + chunk_size, n)]>>
         \o ChunkWindows(n, chunk_size, chunk_overlap,
                         start + chunk_size - chunk_overlap, chunk_index + 1)
    ELSE <<>>

\* Mutation of ChunkText: the single-chunk test with < in place of <=.
ChunkTextStrict(n, document_id, chunk_size, chunk_overlap) ==
    IF n < chunk_size
    THEN <<[document_id |-> document_id, chunk_index |-> 0, start |-> 0,
            stop |-> n, total_chunks |-> 1]>>
    ELSE LET w == ChunkWindows(n, chunk_size, chunk_overlap, 0, 0)
         IN [i \in 1..Len(w) |->
                [document_id |-> document_id, chunk_index |-> w[i].chunk_index,
                 start |-> w[i].start, stop |-> w[i].stop,
                 total_chunks |-> Len(w)]]

\* DocumentService._chunk_text on a text of n words.
ChunkText(n, document_id, chunk_size, chunk_overlap) ==
    IF n <= chunk_size
    THEN <<[document_id |-> document_id, chunk_index |-> 0, start |-> 0,
            stop |-> n, total_chunks |-> 1]>>
    ELSE LET w == ChunkWindows(n, chunk_size, chunk_overlap, 0, 0)
         IN [i \in 1..Len(w) |->
                [document_id |-> document_id, chunk_index |-> w[i].chunk_index,
                 start |-> w[i].start, stop |-> w[i].stop,
                 total_chunks |-> Len(w)]]

\* RAGService.add_chunks, lines 111-130: one point per chunk, in order.
AddChunksPoints(collection_name, chunks, embeddings) ==
    [i \in 1..Len(chunks) |->
        Point(collection_name, chunks[i].document_id, chunks[i].chunk_index,
              embeddings[i])]

\* What create_embeddings_batch returns for a batch: one vector per text.
EmbeddingsBatch(chunks, e) == [i \in 1..Len(chunks) |-> e]

Range(f) == {f[i] : i \in DOMAIN f}

NoDocument ==
    [user_id |-> NoValue, collection_name |-> NoValue, status |-> "none",
     error_message |-> NoValue, chunk_count |-> 0, token_count |-> 0,
     processed_at |-> FALSE]

\* The Document process_document creates (lines 50-59).
NewDocument(user_id, collection_name) ==
    [user_id |-> user_id, collection_name |-> collection_name,
     status |-> "processing", error_message |-> NoValue, chunk_count |-> 0,
     token_count |-> 0, processed_at |-> FALSE]

\* The stages of the try block in the order they run.
Stages == <<"tmpfile", "extract", "chunk", "embed", "upsert", "unlink">>

StageIndex(stage) == CHOOSE i \in 1..Len(Stages) : Stages[i] = stage

\* The stages reached when the one named fail raises ("none": all of them).
Reached(fail) ==
    IF fail = "none" THEN Stages ELSE SubSeq(Stages, 1, StageIndex(fail))

\* The stages that can raise, given what the embedding call can do.
Failures ==
    {"tmpfile", "extract"}
    \cup (IF "raise" \in CreateEmbeddingsBatchOutcomes THEN {"embed"} ELSE {})
    \cup (IF "ok" \in CreateEmbeddingsBatchOutcomes
          THEN {"upsert", "unlink", "none"} ELSE {})

\* Mutation of FinalDocument: an except clause that does not mark the
\* Document failed.
FinalDocumentStaysProcessing(doc, words, chunk_count, fail) ==
    IF fail = "none"
    THEN [doc EXCEPT !.status = "completed", !.chunk_count = chunk_count,
                     !.token_count = words, !.processed_at = TRUE]
    ELSE doc

\* Mutation of FinalDocument: an except clause that sets the status but not
\* the error message.
FinalDocumentNoMessage(doc, words, chunk_count, fail) ==
    LET updated == IF fail \in {"unlink", "none"}
                   THEN [doc EXCEPT !.status = "completed",
                                    !.chunk_count = chunk_count,
                                    !.token_count = words,
                                    !.processed_at = TRUE]
                   ELSE doc
    IN IF fail = "none" THEN updated ELSE [updated EXCEPT !.status = "failed"]

\* Lines 90-94 and 99-106: the fields of the Document when the try block is
\* left: the success fields once the upsert has returned, failed on a raise.
FinalDocument(doc, words, chunk_count, fail) ==
    LET updated == IF fail \in {"unlink", "none"}
                   THEN [doc EXCEPT !.status = "completed",
                                    !.chunk_count = chunk_count,
                                    !.token_count = words,
                                    !.processed_at = TRUE]
                   ELSE doc
    IN IF fail = "none" THEN updated
       ELSE [updated EXCEPT !.status = "failed", !.error_message = fail]

\* The temporary file exists from its creation until os.unlink (line 97)
\* removes it, which only the path without an exception reaches.
TmpFilesAfter(files, id, fail) ==
    IF fail \in {"tmpfile", "none"} THEN files ELSE files \cup {id}

NoIngest ==
    [active |-> FALSE, id |-> 0, words |-> 0, size |-> 0]

NoCall ==
    [op |-> "none", outcome |-> "none", id |-> 0, user_id |-> NoValue,
     size |-> 0, words |-> 0, fail |-> "none", doc |-> NoDocument,
     chunks |-> <<>>, calls |-> <<>>, written |-> {}, retry_of |-> 0]

\* The call submits again the file of the call before it, which failed.
IsRetry(user_id, collection_name, size, words) ==
    /\ ires.op = "process"
    /\ ires.outcome = "returned"
    /\ ires.doc.status = "failed"
    /\ ires.user_id = user_id
    /\ ires.doc.collection_name = collection_name
    /\ ires.size = size
    /\ ires.words = words

\* Lines 36-62: the size check, then the row in status processing, committed.
\* Every call creates its own Document, whose id is a fresh uuid4.
ProcessDocumentCreate(user_id, collection_name, size, words) ==
    /\ ~ inflight.active
    /\ IF SizeRejected(size)
       THEN /\ ires' = [NoCall EXCEPT !.op = "process", !.outcome = "raise",
                                      !.user_id = user_id, !.size = size,
                                      !.words = words]
            /\ UNCHANGED <<points, documents, tmpfiles, nextDoc, inflight>>
       ELSE /\ documents' = [d \in DOMAIN documents \cup {nextDoc} |->
                                IF d = nextDoc
                                THEN NewDocument(user_id, collection_name)
                                ELSE documents[d]]
            /\ inflight' = [active |-> TRUE, id |-> nextDoc, words |-> words,
                            size |-> size]
            /\ nextDoc' = nextDoc + 1
            /\ ires' = [NoCall EXCEPT !.op = "process", !.outcome = "running",
                                      !.id = nextDoc, !.user_id = user_id,
                                      !.size = size, !.words = words,
                                      !.doc = NewDocument(user_id, collection_name),
                                      !.retry_of =
                                          IF IsRetry(user_id, collection_name,
                                                     size, words)
                                          THEN ires.id ELSE 0]
            /\ UNCHANGED <<points, tmpfiles>>
    /\ UNCHANGED <<extVars, configVars, opVars, queryVars>>

\* Lines 64-111: the try block, its except clause, the commit and the return.
\* A failing upsert may have written any prefix of its batch.
ProcessDocumentIngest ==
    /\ inflight.active
    /\ LET id == inflight.id
           doc == documents[id]
           chunks == ChunkText(inflight.words, id, ChunkSize, ChunkOverlap)
       IN \E fail \in Failures, e \in Embeddings :
          \E k \in 0..Len(chunks) :
             LET batch == AddChunksPoints(doc.collection_name, chunks,
                                          EmbeddingsBatch(chunks, e)) IN
             /\ fail # "upsert" => k = Len(batch)
             /\ LET written == IF fail \in {"upsert", "unlink", "none"}
                               THEN Range(SubSeq(batch, 1, k)) ELSE {}
                    final == FinalDocument(doc, inflight.words, Len(batch), fail)
                IN /\ points' = Upsert(points, written)
                   /\ tmpfiles' = TmpFilesAfter(tmpfiles, id, fail)
                   /\ documents' = [documents EXCEPT ![id] = final]
                   /\ ires' = [ires EXCEPT !.outcome = "returned", !.fail = fail,
                                           !.doc = final, !.chunks = chunks,
                                           !.calls = Reached(fail),
                                           !.written = written]
    /\ inflight' = NoIngest
    /\ UNCHANGED <<nextDoc, extVars, configVars, opVars, queryVars>>

\* Mutation of DeleteDocumentVectors: only the document's first chunk goes.
DeleteDocumentVectorsFirst(store, collection_name, document_id) ==
    {p \in store : ~ (p.collection = collection_name
                      /\ p.document_id.v = document_id
                      /\ p.chunk_index = 0)}

\* RAGService.delete_document_vectors: the points of the collection whose
\* payload document_id is the given one are removed.
DeleteDocumentVectors(store, collection_name, document_id) ==
    {p \in store : ~ (p.collection = collection_name
                      /\ p.document_id.v = document_id)}

\* The route delete_document: 404 unless the row is the caller's; then the
\* vectors are deleted (which may raise), then the row (whose commit may
\* raise, the vectors being gone already).
DeleteDocument(user_id, id) ==
    /\ ~ inflight.active
    /\ IF id \notin DOMAIN documents \/ documents[id].user_id # user_id
       THEN /\ ires' = [NoCall EXCEPT !.op = "delete", !.outcome = "not_found",
                                      !.id = id, !.user_id = user_id]
            /\ UNCHANGED <<points, documents>>
       ELSE \E o \in {"ok", "raise", "commit_raise"} :
               /\ ires' = [NoCall EXCEPT !.op = "delete",
                                         !.outcome = IF o = "ok" THEN "deleted"
                                                     ELSE o,
                                         !.id = id, !.user_id = user_id,
                                         !.doc = documents[id]]
               /\ points' = IF o = "raise" THEN points
                            ELSE DeleteDocumentVectors(
                                     points, documents[id].collection_name, id)
               /\ documents' = IF o = "ok"
                               THEN [d \in DOMAIN documents \ {id} |->
                                        documents[d]]
                               ELSE documents
    /\ UNCHANGED <<tmpfiles, nextDoc, inflight, extVars, configVars, opVars, queryVars>>

(***************************************************************************)
(* Direct calls of the service operations: the provider interface of       *)
(* LLMService, RAGService.add_chunks, RedisCache.get / set and the chunker *)
(* DocumentService._chunk_text.  ores records what the last call did.      *)
(***************************************************************************)
NoOp ==
    [op |-> "none", outcome |-> "none", error |-> NoValue, key |-> NoValue,
     branch |-> NoValue, args |-> <<>>, result |-> <<>>, before |-> {}]

LLMOps ==
    {"generate", "generate_stream", "create_embedding", "create_embeddings_batch"}

\* The branch of its if / elif chain an operation takes for a provider key:
\* the provider whose code runs, or "unsupported" for the raising else.
\* create_embedding has no raising else: every other key runs the Gemini code.
Branch(op, key) ==
    CASE op = "generate" ->
            IF key \in {"mock", "gemini", "openai", "anthropic"}
            THEN key ELSE "unsupported"
      [] op = "generate_stream" ->
            IF key \in {"gemini", "openai", "anthropic"}
            THEN key ELSE "unsupported"
      [] op = "create_embedding" ->
            IF key = "openai" THEN "openai" ELSE "gemini"
      [] op = "create_embeddings_batch" ->
            IF key \in {"gemini", "openai"} THEN key ELSE "unsupported"

\* The provider keys an operation tests for.
Supported(op) ==
    CASE op = "generate" -> {"mock", "gemini", "openai", "anthropic"}
      [] op = "generate_stream" -> {"gemini", "openai", "anthropic"}
      [] op = "create_embedding" -> {"gemini", "openai"}
      [] op = "create_embeddings_batch" -> {"gemini", "openai"}

\* A provider's code that needs its client: RuntimeError without it, else the
\* upstream call, which returns or raises.
ClientResults(key) ==
    IF key \in clients
    THEN {[outcome |-> "ok", error |-> NoValue],
          [outcome |-> "raise", error |-> "APIError"]}
    ELSE {[outcome |-> "raise", error |-> "RuntimeError"]}

\* How the code of a branch can end.  The Gemini streaming code reads the
\* attribute self.gemini_model, which __init__ never sets; the Gemini
\* embedding code reads the global genai, which the module never binds.
BranchResults(op, branch) ==
    CASE branch = "unsupported" -> {[outcome |-> "raise", error |-> "ValueError"]}
      [] branch = "mock" -> {[outcome |-> "ok", error |-> NoValue]}
      [] branch = "gemini" /\ op = "generate" -> ClientResults("gemini")
      [] branch = "gemini" /\ op = "generate_stream" ->
            {[outcome |-> "raise", error |-> "AttributeError"]}
      [] branch = "gemini" /\ op \in {"create_embedding", "create_embeddings_batch"} ->
            {[outcome |-> "raise", error |-> "NameError"]}
      [] OTHER -> ClientResults(branch)

PromptWords == {1, 3}              \* the words of a prompt that has words
MockResponseWords == {26, 42}      \* the shortest and longest MOCK_RESPONSES

\* _generate_mock: a canned answer and the word counts as token counts.
GenerateMock(prompt_words, system_words, response_words) ==
    [response |-> "a1", provider |-> "mock",
     prompt_tokens |-> prompt_words + system_words,
     completion_tokens |-> response_words,
     total_tokens |-> prompt_words + system_words + response_words]

\* The result dict of a hosted provider's generation.
GenerateHosted(branch) == [response |-> "a1", provider |-> branch]

\* One call of an operation of the provider interface with the configured
\* provider key (provider = None in the call).
CallLLM(op, prompt_words) ==
    /\ chunker.pc = "idle"
    /\ LET branch == Branch(op, provider)
       IN \E r \in BranchResults(op, branch), w \in MockResponseWords :
             ores' = [NoOp EXCEPT
                        !.op = op, !.key = provider, !.branch = branch,
                        !.outcome = r.outcome, !.error = r.error,
                        !.args = <<prompt_words>>,
                        !.result =
                            IF r.outcome # "ok" \/ op # "generate" THEN <<>>
                            ELSE IF branch = "mock"
                                 THEN GenerateMock(prompt_words, 0, w)
                                 ELSE GenerateHosted(branch)]
    /\ UNCHANGED <<extVars, configVars, ingestVars, queryVars, chunker>>

\* The outcomes of the four operations as the pipelines see them.
DispatchAgrees ==
    /\ {r.outcome : r \in BranchResults("generate", Branch("generate", provider))}
          = GenerateOutcomes
    /\ {r.outcome : r \in BranchResults("create_embedding",
                                        Branch("create_embedding", provider))}
          = CreateEmbeddingOutcomes
    /\ {r.outcome : r \in BranchResults("create_embeddings_batch",
                                        Branch("create_embeddings_batch", provider))}
          = CreateEmbeddingsBatchOutcomes
    /\ ("raise" \in GenerateStreamSteps(0))
    /\ ("end" \in GenerateStreamSteps(0)) =
          (\E r \in BranchResults("generate_stream",
                                  Branch("generate_stream", provider)) :
              r.outcome = "ok")

\* The points of a document in a collection of a store.
DocPoints(store, collection_name, document_id) ==
    {p \in store : p.collection = collection_name /\ p.document_id.v = document_id}

OpsCollections == {"c1"}
OpsDocs == {1, 2}                          \* document ids of direct calls
OpsWords == {ChunkSize, 2 * ChunkSize + 500}   \* one chunk, four chunks

\* RAGService.add_chunks on the chunks of a text: the batch embedding (which
\* may raise), one point per chunk, the upsert, the number of points.
AddChunks(collection_name, document_id, words) ==
    /\ chunker.pc = "idle"
    /\ LET chunks == ChunkText(words, document_id, ChunkSize, ChunkOverlap)
           before == DocPoints(points, collection_name, document_id)
       IN \E o \in CreateEmbeddingsBatchOutcomes, e \in Embeddings :
             LET batch == AddChunksPoints(collection_name, chunks,
                                          EmbeddingsBatch(chunks, e))
             IN IF o = "ok"
                THEN /\ points' = Upsert(points, Range(batch))
                     /\ ores' = [NoOp EXCEPT
                                   !.op = "add_chunks", !.outcome = "ok",
                                   !.args = <<collection_name, document_id, words>>,
                                   !.result = <<Len(batch)>>,
                                   !.before = before]
                ELSE /\ points' = points
                     /\ ores' = [NoOp EXCEPT
                                   !.op = "add_chunks", !.outcome = "raise",
                                   !.args = <<collection_name, document_id, words>>,
                                   !.before = before]
    /\ UNCHANGED <<extVars, configVars, documents, tmpfiles, nextDoc, inflight, ires,
                   queryVars, chunker>>

CacheKeys == {"k1", "k2"}
CacheTtls == {0, 60}               \* 0: no ttl given (None)

\* The JSON-serializable values direct calls store: dicts and scalars.
CacheValues ==
    {<<>>, [a |-> "x"]}
    \cup {Scalar("str", s) : s \in {"abc", "123", ""}}
    \cup {Scalar("int", i) : i \in JsonNumberTexts}
    \cup {Scalar("bool", "True"), Scalar("NoneType", NoValue)}

\* RedisCache.set called directly.
CacheSetCall(key, value, ttl) ==
    /\ chunker.pc = "idle"
    /\ IF CacheSetRaises(value)
       THEN /\ cache' = cache
            /\ ores' = [NoOp EXCEPT !.op = "cache.set", !.outcome = "raise",
                                    !.error = IF IsScalar(value) THEN "DataError"
                                              ELSE "TypeError",
                                    !.key = key, !.args = <<value, ttl>>]
       ELSE /\ cache' = CacheSet(cache, key, value, ttl)
            /\ ores' = [NoOp EXCEPT !.op = "cache.set", !.outcome = "ok",
                                    !.key = key, !.args = <<value, ttl>>]
    /\ UNCHANGED <<extVars, configVars, ingestVars, qres, stream, chunker>>

\* RedisCache.get called directly.
CacheGetCall(key) ==
    /\ chunker.pc = "idle"
    /\ ores' = [NoOp EXCEPT !.op = "cache.get", !.outcome = "ok", !.key = key,
                            !.result = CacheGet(cache, key)]
    /\ UNCHANGED <<extVars, configVars, ingestVars, queryVars, chunker>>

MaxWords == 5                      \* words of a text handed to the chunker
MaxChunkSize == 3                  \* chunk_size of a direct chunker call
MaxIterations == MaxWords + 1      \* iterations of the chunker loop followed

ChunkerWords == 0..MaxWords
ChunkSizes == 1..MaxChunkSize
ChunkOverlaps == 0..MaxChunkSize

NoChunker ==
    [pc |-> "idle", n |-> 0, chunk_size |-> 0, chunk_overlap |-> 0,
     start |-> 0, chunk_index |-> 0, chunks |-> <<>>]

\* Mutation of SingleChunk: < in place of <=.
SingleChunkStrict(n, chunk_size) == n < chunk_size

\* Line 223: the test for the single chunk of a small document.
SingleChunk(n, chunk_size) == n <= chunk_size

\* Mutation of NextStart: the window advanced without the overlap.
NextStartNoOverlap(start, chunk_size, chunk_overlap) == start + chunk_size

\* Lines 238 and 251: end = start + chunk_size; start = end - chunk_overlap.
NextStart(start, chunk_size, chunk_overlap) == start + chunk_size - chunk_overlap

\* A bound of the slice words[start:end] as an offset into n words: a
\* negative bound counts from the end, every bound is clipped to 0..n.
SliceBound(n, i) ==
    IF i < 0 THEN (IF n + i < 0 THEN 0 ELSE n + i) ELSE Min(i, n)

\* Mutation of BackFill: the metadata left as the loop wrote it.
BackFillNone(chunks) == chunks

\* Lines 255-256: every chunk's metadata gets total_chunks.
BackFill(chunks) ==
    [i \in 1..Len(chunks) |-> [chunks[i] EXCEPT !.total_chunks = Len(chunks)]]

\* _chunk_text is called: lines 220-232, the single chunk of a text of at
\* most chunk_size words, else the loop variables are set (lines 234-235).
ChunkTextCall(n, chunk_size, chunk_overlap) ==
    /\ chunker.pc = "idle"
    /\ IF SingleChunk(n, chunk_size)
       THEN /\ ores' = [NoOp EXCEPT
                          !.op = "chunk_text", !.outcome = "ok",
                          !.args = <<n, chunk_size, chunk_overlap>>,
                          !.result = <<[document_id |-> 1, chunk_index |-> 0,
                                        start |-> 0, stop |-> n,
                                        total_chunks |-> 1]>>]
            /\ chunker' = chunker
       ELSE /\ ores' = [NoOp EXCEPT
                          !.op = "chunk_text", !.outcome = "running",
                          !.args = <<n, chunk_size, chunk_overlap>>]
            /\ chunker' = [NoChunker EXCEPT
                             !.pc = "loop", !.n = n, !.chunk_size = chunk_size,
                             !.chunk_overlap = chunk_overlap]
    /\ UNCHANGED <<extVars, configVars, ingestVars, queryVars>>

\* One test of the while condition (line 237): an iteration of the loop
\* (lines 238-252), or the back-fill and the return (lines 255-258).
ChunkTextLoop ==
    /\ chunker.pc = "loop"
    /\ IF chunker.start < chunker.n
       THEN /\ Len(chunker.chunks) < MaxIterations
            /\ LET end == chunker.start + chunker.chunk_size
                   lo == SliceBound(chunker.n, chunker.start)
                   hi == SliceBound(chunker.n, end)
               IN chunker' = [chunker EXCEPT
                     !.chunks = Append(@, [document_id |-> 1,
                                           chunk_index |-> chunker.chunk_index,
                                           start |-> lo,
                                           stop |-> IF hi < lo THEN lo ELSE hi,
                                           total_chunks |-> 0]),
                     !.start = NextStart(chunker.start, chunker.chunk_size,
                                         chunker.chunk_overlap),
                     !.chunk_index = @ + 1]
            /\ ores' = ores
       ELSE /\ ores' = [ores EXCEPT !.outcome = "ok",
                                    !.result = BackFill(chunker.chunks)]
            /\ chunker' = NoChunker
    /\ UNCHANGED <<extVars, configVars, ingestVars, queryVars>>

(***************************************************************************)
(* Deployments: the /deployments routes (api/routes/deployments.py) and    *)
(* DeploymentService (services/deployment_service.py).  Every request runs *)
(* in its own database session: it selects the row, changes attributes of  *)
(* the loaded object and commits; other requests run between the awaited   *)
(* select and the awaited commit.  A commit writes the columns the handler *)
(* assigned, with the values computed from the row as it was loaded.       *)
(***************************************************************************)
MaxDeployments == 1      \* deployments created in one behaviour
MaxVersion == 3          \* no update or redeploy is started at this version

DeploymentStatus ==
    {"pending", "building", "deploying", "running", "stopped", "failed", "deleted"}

\* The statuses a worker reports; status deleted is the DELETE route's.
WorkerStatuses == DeploymentStatus \ {"deleted"}

Sessions == {"s1", "s2"}

UserOps == {"update", "delete", "start", "stop", "redeploy"}

\* Deployment(...) of create_deployment, with the column default version=1.
NewDeployment(user_id) ==
    [user_id |-> user_id, status |-> "pending", version |-> 1]

NoDeployReq == [op |-> NoValue, id |-> 0, status |-> NoValue, version |-> 0]

\* applied: per deployment, the update and redeploy requests that succeeded.
NoDeployRes ==
    [op |-> NoValue, id |-> 0, outcome |-> NoValue, applied |-> <<>>]

DeployIdle ==
    /\ deployments = <<>>
    /\ dreqs = [s \in Sessions |-> NoDeployReq]
    /\ dres = NoDeployRes

\* create_deployment: a new row with a fresh id, status pending, committed.
DeploymentCreated(user_id) ==
    LET id == Cardinality(DOMAIN deployments) + 1 IN
    /\ deployments' = [d \in DOMAIN deployments \cup {id} |->
                          IF d = id THEN NewDeployment(user_id)
                          ELSE deployments[d]]
    /\ dres' = [op |-> "create", id |-> id, outcome |-> "ok",
                applied |-> [d \in DOMAIN deployments \cup {id} |->
                                IF d = id THEN 0 ELSE dres.applied[d]]]

\* POST /deployments of an authenticated user.
CreateDeployment(user_id) ==
    /\ DeploymentCreated(user_id)
    /\ UNCHANGED <<dreqs, rateVars, ares, tasks, configVars, opVars,
                   ingestVars, queryVars>>

\* start_deployment line 89 and stop_deployment line 116: the status the
\* operation requires of the loaded row; the other operations require none.
StatusAccepted(op, status) ==
    CASE op = "start" -> status \in {"stopped", "failed"}
      [] op = "stop" -> status = "running"
      [] OTHER -> TRUE

\* The select by id and owner of a user request, and the checks on the
\* loaded row: 404 when no row matches, 400 when the status is not accepted.
DeploymentSelect(s, op, user_id, id) ==
    /\ dreqs[s] = NoDeployReq
    /\ LET found == id \in DOMAIN deployments /\ deployments[id].user_id = user_id
       IN
       IF ~ found
       THEN /\ dres' = [dres EXCEPT !.op = op, !.id = id, !.outcome = "404"]
            /\ UNCHANGED dreqs
       ELSE IF ~ StatusAccepted(op, deployments[id].status)
       THEN /\ dres' = [dres EXCEPT !.op = op, !.id = id, !.outcome = "400"]
            /\ UNCHANGED dreqs
       ELSE /\ dreqs' = [dreqs EXCEPT ![s] =
                            [op |-> op, id |-> id,
                             status |-> deployments[id].status,
                             version |-> deployments[id].version]]
            /\ UNCHANGED dres
    /\ UNCHANGED <<deployments, rateVars, ares, tasks, configVars, opVars,
                   ingestVars, queryVars>>

\* The status the handler assigns to the loaded object, if it assigns one.
AssignedStatus(op, row) ==
    CASE op \in {"start", "redeploy"} -> "deploying"
      [] op = "stop" -> "stopped"
      [] op = "delete" -> "deleted"
      [] OTHER -> row.status

\* deployment.version += 1 on the loaded object (routes line 134, service
\* line 140): the loaded version plus one, whatever is committed meanwhile.
AssignedVersion(op, loaded, row) ==
    IF op \in {"update", "redeploy"} THEN loaded.version + 1 ELSE row.version

\* The commit of a user request: the assigned columns are written.
DeploymentCommit(s) ==
    /\ dreqs[s] # NoDeployReq
    /\ LET req == dreqs[s]
           row == deployments[req.id]
       IN /\ deployments' = [deployments EXCEPT ![req.id] =
                [row EXCEPT !.status = AssignedStatus(req.op, row),
                            !.version = AssignedVersion(req.op, req, row)]]
          /\ dres' = [op |-> req.op, id |-> req.id, outcome |-> "ok",
                      applied |-> [dres.applied EXCEPT ![req.id] =
                                      IF req.op \in {"update", "redeploy"}
                                      THEN @ + 1 ELSE @]]
    /\ dreqs' = [dreqs EXCEPT ![s] = NoDeployReq]
    /\ UNCHANGED <<rateVars, ares, tasks, configVars, opVars, ingestVars,
                   queryVars>>

\* update_status, called by workers: the select is by id alone and the given
\* status is assigned without a check of the current one.
UpdateStatus(id, status) ==
    /\ IF id \notin DOMAIN deployments
       THEN /\ dres' = [dres EXCEPT !.op = "update_status", !.id = id,
                                    !.outcome = "raise"]
            /\ UNCHANGED deployments
       ELSE /\ deployments' = [deployments EXCEPT ![id].status = status]
            /\ dres' = [dres EXCEPT !.op = "update_status", !.id = id,
                                    !.outcome = "ok"]
    /\ UNCHANGED <<dreqs, rateVars, ares, tasks, configVars, opVars,
                   ingestVars, queryVars>>

(***************************************************************************)
(* RateLimiter (core/redis.py): the counter key of one identifier.  A call *)
(* reads the key with GET and, after that awaited call has returned,       *)
(* writes it with SET or INCR; other calls and the key's expiry happen in  *)
(* between.  RedisClient.rate_limit (shared/redis_client.py) runs the same *)
(* GET / SETEX / INCR sequence.                                            *)
(***************************************************************************)
RateLimitRequests == 2   \* self.requests, the limit of one period

Callers == {"r1", "r2"}

\* The key is absent; GET returns None.
NoKey == [exists |-> FALSE, count |-> 0, expires |-> FALSE]

\* current: the value GET returned, -1 for None.
NoRateCall == [pc |-> "idle", current |-> -1]

NoRateRes == [caller |-> NoValue, allowed |-> FALSE, remaining |-> 0,
              called |-> FALSE]

RateIdle ==
    /\ ratekey = NoKey
    /\ rcalls = [c \in Callers |-> NoRateCall]
    /\ admitted = 0
    /\ rres = NoRateRes

\* Lines 117-126: GET; a count at the limit is denied at once.
IsAllowedGet(c) ==
    /\ rcalls[c].pc = "idle"
    /\ IF ratekey.exists /\ ratekey.count >= RateLimitRequests
       THEN /\ rres' = [caller |-> c, allowed |-> FALSE, remaining |-> 0,
                        called |-> TRUE]
            /\ UNCHANGED rcalls
       ELSE /\ rcalls' = [rcalls EXCEPT ![c] =
                             [pc |-> "read",
                              current |-> IF ratekey.exists THEN ratekey.count
                                          ELSE -1]]
            /\ UNCHANGED rres
    /\ UNCHANGED <<ratekey, admitted, deployVars, ares, tasks, configVars,
                   opVars, ingestVars, queryVars>>

\* redis SET key 1 EX period: the key holds 1 and expires after the period.
RedisSetEx == [exists |-> TRUE, count |-> 1, expires |-> TRUE]

\* redis INCR: an absent key is created holding 1 without any expiry, an
\* existing key keeps its expiry.
RedisIncr(key) ==
    IF key.exists THEN [key EXCEPT !.count = @ + 1]
    ELSE [exists |-> TRUE, count |-> 1, expires |-> FALSE]

\* Lines 119-121 and 128-129: SET when GET returned None, INCR otherwise;
\* the call is allowed and the remaining count comes from the value read.
IsAllowedWrite(c) ==
    /\ rcalls[c].pc = "read"
    /\ LET current == rcalls[c].current IN
       /\ ratekey' = IF current = -1 THEN RedisSetEx ELSE RedisIncr(ratekey)
       /\ rres' = [caller |-> c, allowed |-> TRUE,
                   remaining |-> IF current = -1 THEN RateLimitRequests - 1
                                 ELSE RateLimitRequests - current - 1,
                   called |-> TRUE]
    /\ admitted' = admitted + 1
    /\ rcalls' = [rcalls EXCEPT ![c] = NoRateCall]
    /\ UNCHANGED <<deployVars, ares, tasks, configVars, opVars, ingestVars,
                   queryVars>>

\* Redis removes a key whose expiry has run out: one period has passed
\* since the SET.  A key without expiry is never removed.
RateExpire ==
    /\ ratekey.exists
    /\ ratekey.expires
    /\ ratekey' = NoKey
    /\ admitted' = 0
    /\ UNCHANGED <<rcalls, rres, deployVars, ares, tasks, configVars, opVars,
                   ingestVars, queryVars>>

(***************************************************************************)
(* Authentication of the protected routes: the dependencies                *)
(* get_current_user / get_current_active_user (api/dependencies.py) and    *)
(* verify_token (core/security.py).  A bearer token is what jwt.decode     *)
(* sees of it: whether the signature verifies, whether it has expired, and *)
(* the type and sub claims of its payload.                                 *)
(***************************************************************************)
Endpoints ==
    {"list_deployments", "create_deployment", "list_collections", "dashboard"}

\* The rows of the users table: u1 is active, u2 is not; "u0" has no row.
ActiveUsers == {"u1"}

Subjects == Users \cup {"u0"}

\* No Authorization header (or not the bearer scheme): HTTPBearer with
\* auto_error=False hands None to the dependency.
NoCredentials ==
    [present |-> FALSE, signature |-> NoValue, expired |-> FALSE,
     type |-> NoValue, sub |-> NoValue]

Tokens ==
    [present : {TRUE}, signature : {"valid", "invalid"}, expired : BOOLEAN,
     type : {"access", "refresh"}, sub : Subjects]

Credentials == {NoCredentials} \cup Tokens

\* Mutation of VerifyToken: the type claim is not looked at.
VerifyTokenAnyType(token, token_type) ==
    IF token.signature # "valid" \/ token.expired
    THEN [ok |-> FALSE, sub |-> NoValue]
    ELSE [ok |-> TRUE, sub |-> token.sub]

\* verify_token: jwt.decode raises JWTError on a bad signature or an expired
\* token (None is returned), a payload of another type gives None, otherwise
\* the TokenData with the payload's sub.
VerifyToken(token, token_type) ==
    IF token.signature # "valid" \/ token.expired
    THEN [ok |-> FALSE, sub |-> NoValue]
    ELSE IF token.type # token_type
    THEN [ok |-> FALSE, sub |-> NoValue]
    ELSE [ok |-> TRUE, sub |-> token.sub]

\* get_current_user: 401 without credentials, with a token verify_token
\* rejects, or when no user has the token's sub as id.
GetCurrentUser(credentials) ==
    IF ~ credentials.present
    THEN [status_code |-> 401, user |-> NoValue]
    ELSE LET token_data == VerifyToken(credentials, "access") IN
         IF ~ token_data.ok
         THEN [status_code |-> 401, user |-> NoValue]
         ELSE IF token_data.sub \notin Users
         THEN [status_code |-> 401, user |-> NoValue]
         ELSE [status_code |-> 200, user |-> token_data.sub]

\* get_current_active_user: 403 for a user that is not active.
GetCurrentActiveUser(credentials) ==
    LET current_user == GetCurrentUser(credentials) IN
    IF current_user.status_code # 200 THEN current_user
    ELSE IF current_user.user \notin ActiveUsers
    THEN [status_code |-> 403, user |-> NoValue]
    ELSE current_user

NoRequest ==
    [called |-> FALSE, endpoint |-> NoValue, credentials |-> NoCredentials,
     status_code |-> 0, handler_ran |-> FALSE]

AuthIdle == ares = NoRequest

\* One request to a protected endpoint: the dependency answers, or the
\* handler body runs as the authenticated user.  Of the four handlers only
\* create_deployment writes; the other three read.
ApiRequest(endpoint, credentials) ==
    LET auth == GetCurrentActiveUser(credentials) IN
    /\ IF auth.status_code # 200
       THEN /\ ares' = [called |-> TRUE, endpoint |-> endpoint,
                        credentials |-> credentials,
                        status_code |-> auth.status_code,
                        handler_ran |-> FALSE]
            /\ UNCHANGED <<deployments, dres>>
       ELSE /\ ares' = [called |-> TRUE, endpoint |-> endpoint,
                        credentials |-> credentials,
                        status_code |-> IF endpoint = "create_deployment"
                                        THEN 201 ELSE 200,
                        handler_ran |-> TRUE]
            /\ IF endpoint = "create_deployment"
               THEN DeploymentCreated(auth.user)
               ELSE UNCHANGED <<deployments, dres>>
    /\ UNCHANGED <<dreqs, rateVars, tasks, configVars, opVars, ingestVars,
                   queryVars>>

(***************************************************************************)
(* Concurrent requests on documents: process_document calls and the        *)
(* delete_document route running in their own sessions.  A request gives   *)
(* way to the others at its awaited database calls: an ingestion between   *)
(* the commit of the processing row, the try block and the final commit;   *)
(* a deletion between its select, the vector delete and its commit.        *)
(***************************************************************************)
MaxTasks == 2            \* process_document calls in one behaviour

\* pc: created, upserted, done; del: none, selected, vectors, done.
NewTask(words, concurrent) ==
    [pc |-> "created", words |-> words, fail |-> "none", chunk_count |-> 0,
     vector |-> NoValue, outcome |-> NoValue, del |-> "none",
     concurrent |-> concurrent]

TasksIdle == tasks = <<>>

InFlight(id) == id \in DOMAIN tasks /\ tasks[id].pc # "done"

\* process_document lines 36-62, the size within the limit: the row in
\* status processing is committed under a fresh id.
TaskCreate(user_id, collection_name, words) ==
    LET id == nextDoc IN
    /\ documents' = [d \in DOMAIN documents \cup {id} |->
                        IF d = id THEN NewDocument(user_id, collection_name)
                        ELSE documents[d]]
    /\ tasks' = [d \in DOMAIN tasks \cup {id} |->
                    IF d = id
                    THEN NewTask(words, \E o \in DOMAIN tasks : InFlight(o))
                    ELSE tasks[d]]
    /\ nextDoc' = nextDoc + 1
    /\ UNCHANGED <<points, tmpfiles, inflight, ires, deployVars, rateVars, ares,
                   configVars, opVars, queryVars>>

\* Lines 64-106: the try block and its except clause.  The new status and
\* counts are attributes of the session's object until the commit.
TaskTry(id) ==
    /\ id \in DOMAIN tasks
    /\ tasks[id].pc = "created"
    /\ LET collection_name == "c1"
           chunks == ChunkText(tasks[id].words, id, ChunkSize, ChunkOverlap)
       IN \E fail \in Failures, e \in Embeddings :
          \E k \in 0..Len(chunks) :
             LET batch == AddChunksPoints(collection_name, chunks,
                                          EmbeddingsBatch(chunks, e)) IN
             /\ fail # "upsert" => k = Len(batch)
             /\ LET written == IF fail \in {"upsert", "unlink", "none"}
                               THEN Range(SubSeq(batch, 1, k)) ELSE {}
                IN /\ points' = Upsert(points, written)
                   /\ tmpfiles' = TmpFilesAfter(tmpfiles, id, fail)
                   /\ tasks' = [tasks EXCEPT ![id].pc = "upserted",
                                             ![id].fail = fail,
                                             ![id].chunk_count = Len(batch),
                                             ![id].vector = e]
    /\ UNCHANGED <<documents, nextDoc, inflight, ires, deployVars, rateVars,
                   ares, configVars, opVars, queryVars>>

\* Lines 108-111: the commit of the object's new attributes.  The UPDATE of
\* a row that was deleted meanwhile matches no row: the commit raises.
TaskCommit(id) ==
    /\ id \in DOMAIN tasks
    /\ tasks[id].pc = "upserted"
    /\ IF id \in DOMAIN documents
       THEN /\ documents' = [documents EXCEPT ![id] =
                                FinalDocument(@, tasks[id].words,
                                              tasks[id].chunk_count,
                                              tasks[id].fail)]
            /\ tasks' = [tasks EXCEPT ![id].pc = "done",
                                      ![id].outcome = "returned"]
       ELSE /\ tasks' = [tasks EXCEPT ![id].pc = "done",
                                      ![id].outcome = "raise"]
            /\ UNCHANGED documents
    /\ UNCHANGED <<points, tmpfiles, nextDoc, inflight, ires, deployVars,
                   rateVars, ares, configVars, opVars, queryVars>>

\* delete_document lines 169-182: the select by id and owner.  The row is
\* visible from the commit of process_document line 61 on.
DeleteSelect(user_id, id) ==
    /\ id \in DOMAIN tasks
    /\ tasks[id].del = "none"
    /\ id \in DOMAIN documents
    /\ documents[id].user_id = user_id
    /\ tasks' = [tasks EXCEPT ![id].del = "selected"]
    /\ UNCHANGED <<points, documents, tmpfiles, nextDoc, inflight, ires,
                   deployVars, rateVars, ares, configVars, opVars, queryVars>>

\* Lines 184-186: the points that carry the document's id are deleted.
DeleteVectors(id) ==
    /\ id \in DOMAIN tasks
    /\ tasks[id].del = "selected"
    /\ points' = DeleteDocumentVectors(points, "c1", id)
    /\ tasks' = [tasks EXCEPT ![id].del = "vectors"]
    /\ UNCHANGED <<documents, tmpfiles, nextDoc, inflight, ires, deployVars,
                   rateVars, ares, configVars, opVars, queryVars>>

\* Lines 188-190: the row is deleted and the deletion committed.
DeleteCommit(id) ==
    /\ id \in DOMAIN tasks
    /\ tasks[id].del = "vectors"
    /\ documents' = [d \in DOMAIN documents \ {id} |-> documents[d]]
    /\ tasks' = [tasks EXCEPT ![id].del = "done"]
    /\ UNCHANGED <<points, tmpfiles, nextDoc, inflight, ires, deployVars,
                   rateVars, ares, configVars, opVars, queryVars>>

\* The parts of the state a specification does not use stay as constructed.
ExtIdle ==
    /\ DeployIdle
    /\ RateIdle
    /\ AuthIdle
    /\ TasksIdle

(***************************************************************************)
(* Specifications.                                                         *)
(***************************************************************************)
\* The provider key is any string; a hosted provider has its client when
\* its API key is configured.
ConfigInit ==
    /\ provider \in Providers
    /\ clients \in {{}, {provider} \cap Hosted}

\* A store that holds the four points of one ingested 2,500-word document.
SeedWords == 2 * ChunkSize + 500

SeedChunks == ChunkText(SeedWords, 1, ChunkSize, ChunkOverlap)

SeedPoints ==
    Range(AddChunksPoints("c1", SeedChunks, EmbeddingsBatch(SeedChunks, "e1")))

SeedDocuments ==
    [d \in {1} |-> FinalDocument(NewDocument("u1", "c1"), SeedWords,
                                 Len(SeedChunks), "none")]

Init ==
    /\ ConfigInit
    /\ points = SeedPoints
    /\ documents = SeedDocuments
    /\ tmpfiles = {}
    /\ nextDoc = 2
    /\ inflight = NoIngest
    /\ ires = NoCall
    /\ cache = <<>>
    /\ qres = NoQuery
    /\ stream = NoStream
    /\ ores = NoOp
    /\ chunker = NoChunker
    /\ ExtIdle

Next ==
    \/ \E qd \in RAGQuery : Query(qd)
    \/ \E k \in DOMAIN cache : Expire(k)
    \/ \E qd \in RAGQuery : QueryStreamStart(qd)
    \/ QueryStreamFragment
    \/ QueryStreamDone
    \/ QueryStreamRaise

Spec == Init /\ [][Next]_vars

InitIngest ==
    /\ ConfigInit
    /\ points = {}
    /\ documents = <<>>
    /\ tmpfiles = {}
    /\ nextDoc = 1
    /\ inflight = NoIngest
    /\ ires = NoCall
    /\ cache = <<>>
    /\ qres = NoQuery
    /\ stream = NoStream
    /\ ores = NoOp
    /\ chunker = NoChunker
    /\ ExtIdle

NextIngest ==
    \/ \E u \in Users, c \in Collections, size \in FileSizes, w \in WordCounts :
          /\ SizeRejected(size) \/ nextDoc <= MaxDocs
          /\ ProcessDocumentCreate(u, c, size, w)
    \/ ProcessDocumentIngest
    \/ \E u \in Users, id \in 1..MaxDocs : DeleteDocument(u, id)

SpecIngest == InitIngest /\ [][NextIngest]_vars

\* One client that submits one file and submits it again when the ingestion
\* failed.
NextRetry ==
    \/ \E w \in WordCounts :
          /\ nextDoc <= MaxAttempts
          /\ nextDoc = 1 \/ IsRetry("u1", "c1", UploadMaxBytes, w)
          /\ ProcessDocumentCreate("u1", "c1", UploadMaxBytes, w)
    \/ ProcessDocumentIngest

SpecRetry == InitIngest /\ [][NextRetry]_vars

\* Direct calls of the provider interface and of add_chunks, under every
\* configuration, on an empty store.
InitOps == InitIngest

NextOps ==
    \/ \E op \in LLMOps, w \in PromptWords : CallLLM(op, w)
    \/ \E c \in OpsCollections, d \in OpsDocs, w \in OpsWords : AddChunks(c, d, w)

SpecOps == InitOps /\ [][NextOps]_vars

\* The configuration without any setting: the mock provider, no API key.
DefaultConfigInit ==
    /\ provider = "mock"
    /\ clients = {}

InitDefault ==
    /\ DefaultConfigInit
    /\ points = {}
    /\ documents = <<>>
    /\ tmpfiles = {}
    /\ nextDoc = 1
    /\ inflight = NoIngest
    /\ ires = NoCall
    /\ cache = <<>>
    /\ qres = NoQuery
    /\ stream = NoStream
    /\ ores = NoOp
    /\ chunker = NoChunker
    /\ ExtIdle

\* Direct calls of RedisCache.set and RedisCache.get, and ttl expiry.
NextCache ==
    \/ \E k \in CacheKeys, v \in CacheValues, t \in CacheTtls : CacheSetCall(k, v, t)
    \/ \E k \in CacheKeys : CacheGetCall(k)
    \/ \E k \in DOMAIN cache : Expire(k)

SpecCache == InitDefault /\ [][NextCache]_vars

\* Direct calls of the chunker.
NextChunker ==
    \/ \E n \in ChunkerWords, cs \in ChunkSizes, ov \in ChunkOverlaps :
          ChunkTextCall(n, cs, ov)
    \/ ChunkTextLoop

SpecChunker == InitDefault /\ [][NextChunker]_vars

\* Deployment requests of two users in two concurrent sessions, and the
\* worker's status updates.
NextDeploy ==
    \/ \E u \in Users :
          /\ Cardinality(DOMAIN deployments) < MaxDeployments
          /\ CreateDeployment(u)
    \/ \E s \in Sessions, op \in UserOps, u \in Users, id \in 1..MaxDeployments :
          /\ (op \in {"update", "redeploy"} /\ id \in DOMAIN deployments)
                => deployments[id].version < MaxVersion
          /\ DeploymentSelect(s, op, u, id)
    \/ \E s \in Sessions : DeploymentCommit(s)
    \/ \E id \in 1..MaxDeployments, st \in WorkerStatuses : UpdateStatus(id, st)

SpecDeploy == InitDefault /\ [][NextDeploy]_vars

\* A configuration in which ingestion can succeed: openai with its client.
OpenaiConfigInit ==
    /\ provider = "openai"
    /\ clients = {"openai"}

InitOpenai ==
    /\ OpenaiConfigInit
    /\ points = {}
    /\ documents = <<>>
    /\ tmpfiles = {}
    /\ nextDoc = 1
    /\ inflight = NoIngest
    /\ ires = NoCall
    /\ cache = <<>>
    /\ qres = NoQuery
    /\ stream = NoStream
    /\ ores = NoOp
    /\ chunker = NoChunker
    /\ ExtIdle

\* Concurrent ingestions of distinct documents of one user into the
\* collection c1.
NextConcurrent ==
    \/ \E w \in WordCounts :
          /\ nextDoc <= MaxTasks
          /\ TaskCreate("u1", "c1", w)
    \/ \E id \in 1..MaxTasks : TaskTry(id)
    \/ \E id \in 1..MaxTasks : TaskCommit(id)

SpecConcurrent == InitOpenai /\ [][NextConcurrent]_vars

\* Ingestions and the deletion of their documents by the owner.
NextRace ==
    \/ NextConcurrent
    \/ \E u \in Users, id \in 1..MaxTasks : DeleteSelect(u, id)
    \/ \E id \in 1..MaxTasks : DeleteVectors(id)
    \/ \E id \in 1..MaxTasks : DeleteCommit(id)

SpecRace == InitOpenai /\ [][NextRace]_vars

\* Concurrent rate-limit calls for one identifier, and the key's expiry.
NextRate ==
    \/ \E c \in Callers : IsAllowedGet(c)
    \/ \E c \in Callers : IsAllowedWrite(c)
    \/ RateExpire

SpecRate == InitDefault /\ [][NextRate]_vars

\* Requests to the protected endpoints with every kind of credentials.
NextAuth ==
    \E endpoint \in Endpoints, credentials \in Credentials :
       /\ (endpoint = "create_deployment"
              /\ GetCurrentActiveUser(credentials).status_code = 200)
             => Cardinality(DOMAIN deployments) < MaxDeployments
       /\ ApiRequest(endpoint, credentials)

SpecAuth == InitDefault /\ [][NextAuth]_vars

(***************************************************************************)
(* Properties of the streamed and synchronous query (checked under Spec).  *)
(***************************************************************************)
Last(s) == s[Len(s)]

Terminal(e) == e.type \in {"done", "error"}

\* C1: the events a streamed query delivers are one "sources" event with the
\* chunks of the up-front retrieval, then "chunk" events, then exactly one
\* terminal "done" or "error" event, and nothing after it.  Stated for the
\* streams whose "sources" event was delivered.
C1_StreamShape ==
    LET ev == stream.events
    IN /\ stream.pc = "open" => Len(ev) >= 1
       /\ Len(ev) >= 1 =>
            /\ ev[1].type = "sources"
            /\ ev[1].chunks = stream.retrieved
       /\ \A i \in 2..Len(ev) :
            /\ ev[i].type \in {"chunk", "done", "error"}
            /\ Terminal(ev[i]) => i = Len(ev)
       /\ (stream.pc = "closed" /\ Len(ev) >= 1) =>
            /\ Len(ev) >= 2
            /\ Terminal(Last(ev))

\* C2: when the generation provider raises in a streamed query, the last
\* event the client gets is "error" and no exception leaves the generator.
C2_ErrorEvent ==
    stream.failed = "generate" =>
        /\ stream.pc = "closed"
        /\ ~ stream.raised
        /\ Last(stream.events).type = "error"

\* C3: a query that finds an entry under its key returns the stored response
\* with cached = true and calls neither retrieval nor generation.
C3_CacheHit ==
    (qres.called /\ qres.hit) =>
        /\ qres.outcome = "ok"
        /\ qres.resp = [qres.stored EXCEPT !.cached = TRUE]
        /\ qres.calls = <<"cache.get">>

\* A query() call has just ended: it set qres, or re-wrote the cache (ttl
\* expiry only removes entries, a streamed query leaves the cache alone).
QueryStepped ==
    \/ qres' # qres
    \/ (cache' # cache /\ DOMAIN cache \subseteq DOMAIN cache')

\* C4: on a cache miss with retrieval and generation both successful, query()
\* makes one retrieval call then one generation call, returns a response with
\* cached = false holding the retrieved chunks, and leaves that response in
\* the cache under the query's key with the fixed ttl.  (qres.calls has more
\* than three entries exactly when retrieval and generation have returned.)
C4_CacheMiss ==
    [][(/\ QueryStepped
        /\ ~ qres'.hit
        /\ Len(qres'.calls) > 3)
       => /\ qres'.outcome = "ok"
          /\ qres'.calls = <<"cache.get", "search", "generate", "cache.set">>
          /\ qres'.resp.cached = FALSE
          /\ qres'.resp.chunks = qres'.retrieved
          /\ MakeKey(qres'.key) \in DOMAIN cache'
          /\ cache'[MakeKey(qres'.key)] =
                [value |-> JsonDumps(qres'.resp), ttl |-> RagCacheTtl]]_vars

\* C5: the cache key is a function of (query, collection_name) alone, so a
\* call that differs from an earlier one only in top_k, score_threshold, model
\* or system prompt is answered from the earlier call's entry, without a
\* retrieval.
C5_KeyIgnoresParams ==
    /\ \A a, b \in RAGQuery :
          (a.query = b.query /\ a.collection_name = b.collection_name)
              => CacheKey(a) = CacheKey(b)
    /\ (qres.called /\ qres.hit /\ qres.stale) =>
          /\ qres.outcome = "ok"
          /\ qres.resp.answer = qres.stored.answer
          /\ qres.resp.chunks = qres.stored.chunks
          /\ qres.calls = <<"cache.get">>

\* C6: a step of a streamed query changes no cache entry (so a later
\* synchronous query for the same query and collection still misses).
C6_StreamLeavesCache ==
    [][stream' # stream => cache' = cache]_vars

\* A streamed query ran to its "done" event and the cache is still empty.
C6_Witness ==
    /\ stream.pc = "closed"
    /\ stream.events # <<>>
    /\ Last(stream.events).type = "done"
    /\ Len(stream.events) = MaxFragments + 2
    /\ MakeKey("rag:" \o MD5(stream.query \o ":" \o stream.collection_name))
          \notin DOMAIN cache

(***************************************************************************)
(* Properties of document ingestion (checked under SpecIngest).            *)
(***************************************************************************)
\* What one step may do to the row of document d.
DocStepLegal(d) ==
    IF d \notin DOMAIN documents
    THEN d \in DOMAIN documents' => documents'[d].status = "processing"
    ELSE IF d \notin DOMAIN documents'
         THEN ires'.op = "delete" /\ ires'.id = d
         ELSE \/ documents'[d] = documents[d]
              \/ /\ documents[d].status = "processing"
                 /\ documents'[d].status \in {"completed", "failed"}
                 /\ inflight.active /\ inflight.id = d /\ ~ inflight'.active

\* C7: a Document row is created in status processing; the ingestion that
\* created it changes it once, at its end, to completed or failed; afterwards
\* the row changes only by being deleted.
C7_Lifecycle ==
    [][/\ \A d \in DOMAIN documents \cup DOMAIN documents' : DocStepLegal(d)
       /\ (inflight.active /\ ~ inflight'.active) =>
             documents'[inflight.id].status \in {"completed", "failed"}]_vars

\* A finished Document survived a delete request that did not delete it.
C7_Witness ==
    /\ ires.op = "delete"
    /\ ires.outcome \in {"not_found", "raise"}
    /\ ires.id \in DOMAIN documents
    /\ documents[ires.id].status \in {"completed", "failed"}

\* C8: when a stage of the ingestion raises, process_document still returns
\* the Document, with status failed and the failure as error_message; no
\* returned Document is left in status processing; the points the failed call
\* wrote stay in the store.
C8_FailureRecorded ==
    (ires.op = "process" /\ ires.outcome = "returned") =>
        /\ ires.id \in DOMAIN documents
        /\ documents[ires.id] = ires.doc
        /\ ires.doc.status # "processing"
        /\ ires.fail # "none" =>
              /\ ires.doc.status = "failed"
              /\ ires.doc.error_message = ires.fail
              /\ ires.written \subseteq points

\* An upsert raised after writing part of its batch.
C8_Witness ==
    /\ ires.op = "process"
    /\ ires.outcome = "returned"
    /\ ires.fail = "upsert"
    /\ ires.written # {}
    /\ Cardinality(ires.written) < Len(ires.chunks)

\* The points of a document in a collection.
PointsOf(collection_name, document_id) ==
    {p \in points : p.collection = collection_name /\ p.document_id.v = document_id}

\* C9: when no stage raises, process_document returns the Document completed,
\* with processed_at set, token_count the word count of the text, chunk_count
\* the number of chunks the chunker produced and also the number of the
\* document's points in the collection; a text of at most chunk_size words
\* gives chunk_count 1.
C9_Completed ==
    (ires.op = "process" /\ ires.outcome = "returned" /\ ires.fail = "none") =>
        /\ ires.doc.status = "completed"
        /\ ires.doc.processed_at
        /\ ires.doc.token_count = ires.words
        /\ ires.doc.chunk_count = Len(ires.chunks)
        /\ ires.doc.chunk_count =
              Cardinality(PointsOf(ires.doc.collection_name, ires.id))
        /\ ires.words <= ChunkSize => ires.doc.chunk_count = 1
        /\ ires.words > ChunkSize => ires.doc.chunk_count > 1

\* A text of exactly chunk_size words was ingested.
C9_Witness ==
    /\ ires.op = "process"
    /\ ires.outcome = "returned"
    /\ ires.fail = "none"
    /\ ires.words = ChunkSize
    /\ ires.doc.status = "completed"

\* C10: an upload larger than the configured maximum is rejected with an
\* error and nothing else happens: no Document row, no temporary file, no
\* stage of the ingestion, no change of the vector store.
C10_OversizeRejected ==
    [][(/\ ires' # ires
        /\ ires'.op = "process"
        /\ ires'.size > UploadMaxSizeMb * 1024 * 1024)
       => /\ ires'.outcome = "raise"
          /\ ires'.calls = <<>>
          /\ UNCHANGED <<documents, points, tmpfiles, nextDoc, inflight>>]_vars

\* An upload one byte over the maximum was rejected.
C10_Witness ==
    /\ ires.op = "process"
    /\ ires.outcome = "raise"
    /\ ires.size = UploadMaxSizeMb * 1024 * 1024 + 1
    /\ documents = <<>>

(***************************************************************************)
(* Properties of the vector store under add_chunks, retried ingestion and  *)
(* deletion.                                                               *)
(***************************************************************************)
\* The chunk indexes of a set of points.
ChunkIndexes(S) == {p.chunk_index : p \in S}

\* C11 (checked under SpecOps): after add_chunks has returned, the collection
\* holds exactly one point for each (document_id, chunk_index) of the call and
\* the call returned the number of chunks; a call with the chunks of an
\* earlier call of the same document leaves as many points as that call did
\* and touches no point of another document.
C11_UpsertIdempotent ==
    [][(ores' # ores /\ ores'.op = "add_chunks" /\ ores'.outcome = "ok") =>
          LET collection_name == ores'.args[1]
              document_id == ores'.args[2]
              chunks == ChunkText(ores'.args[3], document_id, ChunkSize, ChunkOverlap)
              now == DocPoints(points', collection_name, document_id)
              indexes == {chunks[i].chunk_index : i \in 1..Len(chunks)}
          IN /\ ores'.result = <<Len(chunks)>>
             /\ \A i \in indexes :
                   Cardinality({p \in now : p.chunk_index = i}) = 1
             /\ points' \ now = points \ ores'.before
             /\ ChunkIndexes(ores'.before) = indexes =>
                   /\ Cardinality(now) = Len(chunks)
                   /\ Cardinality(points') = Cardinality(points)]_vars

\* add_chunks was called a second time with the four chunks of a document and
\* replaced points the first call had written.
C11_Witness ==
    /\ ores.op = "add_chunks"
    /\ ores.outcome = "ok"
    /\ ores.result = <<4>>
    /\ Cardinality(ores.before) = 4
    /\ ores.before \cap points = {}

\* C12 (checked under SpecRetry): when a file is submitted again after an
\* ingestion of it that failed, and the retry completes, the collection holds
\* one point per chunk of the file and no point of the failed attempt.
C12_RetryIdempotent ==
    (/\ ires.op = "process"
     /\ ires.outcome = "returned"
     /\ ires.retry_of # 0
     /\ ires.fail = "none")
    => /\ DocPoints(points, ires.doc.collection_name, ires.retry_of) = {}
       /\ Cardinality({p \in points : p.collection = ires.doc.collection_name})
             = Len(ires.chunks)

ChunkerReturned == ores.op = "chunk_text" /\ ores.outcome = "ok"

\* The number of window starts k * step below n.
WindowCount(n, step) == IF n = 0 THEN 0 ELSE (n - 1) \div step + 1

\* C14: with overlap < chunk_size the chunker returns exactly one chunk if and
\* only if the text has at most chunk_size words, and then the chunk covers
\* the whole text with chunk_index 0 and total_chunks 1.
C14_SingleChunk ==
    (ChunkerReturned /\ ores.args[3] < ores.args[2]) =>
        /\ (Len(ores.result) = 1) <=> (ores.args[1] <= ores.args[2])
        /\ ores.args[1] <= ores.args[2] =>
              ores.result = <<[document_id |-> 1, chunk_index |-> 0, start |-> 0,
                               stop |-> ores.args[1], total_chunks |-> 1]>>

\* A text of exactly chunk_size words gave one chunk under a positive overlap.
C14_Witness ==
    /\ ChunkerReturned
    /\ ores.args[1] = ores.args[2]
    /\ ores.args[3] > 0
    /\ ores.args[3] < ores.args[2]
    /\ Len(ores.result) = 1

\* C15: for a text of more than chunk_size words and overlap < chunk_size the
\* loop ends after one iteration per window start k * (chunk_size - overlap)
\* below the word count, and the chunks returned are those windows in order,
\* each of chunk_size words or up to the end of the text; 2,500 words with
\* chunk_size 1000 and overlap 200 give the starts 0, 800, 1600, 2400.
C15_Windows ==
    /\ (chunker.pc = "loop" /\ chunker.chunk_overlap < chunker.chunk_size) =>
          LET step == chunker.chunk_size - chunker.chunk_overlap
          IN /\ chunker.start = Len(chunker.chunks) * step
             /\ Len(chunker.chunks) <= WindowCount(chunker.n, step)
             /\ Len(chunker.chunks) < MaxIterations
    /\ (ChunkerReturned /\ ores.args[1] > ores.args[2]
                        /\ ores.args[3] < ores.args[2]) =>
          LET n == ores.args[1]
              step == ores.args[2] - ores.args[3]
          IN /\ Len(ores.result) = WindowCount(n, step)
             /\ \A i \in 1..Len(ores.result) :
                   /\ ores.result[i].start = (i - 1) * step
                   /\ ores.result[i].stop = Min((i - 1) * step + ores.args[2], n)
             /\ ores.result = ChunkText(n, 1, ores.args[2], ores.args[3])
    /\ LET w == ChunkText(2500, 1, ChunkSize, ChunkOverlap)
       IN [i \in 1..Len(w) |-> w[i].start] = <<0, 800, 1600, 2400>>

\* Overlapping windows were returned, the last one cut by the end of the text.
C15_Witness ==
    /\ ChunkerReturned
    /\ ores.args[3] > 0
    /\ ores.args[3] < ores.args[2]
    /\ Len(ores.result) >= 3
    /\ ores.result[Len(ores.result)].stop - ores.result[Len(ores.result)].start
          < ores.args[2]

\* C16: called with overlap >= chunk_size the chunker returns an error: it
\* returns no chunks and runs no loop.
C16_RejectsOverlap ==
    (ores.op = "chunk_text" /\ ores.args[3] >= ores.args[2]) =>
        /\ ores.outcome = "error"
        /\ chunker.pc = "idle"

\* C17: in a returned chunk sequence the i-th chunk (from 0) has chunk_index i
\* and every chunk's total_chunks is the length of the sequence.
C17_IndexAndTotal ==
    ChunkerReturned =>
        \A i \in 1..Len(ores.result) :
            /\ ores.result[i].chunk_index = i - 1
            /\ ores.result[i].total_chunks = Len(ores.result)

\* The loop returned at least three chunks.
C17_Witness ==
    /\ ChunkerReturned
    /\ Len(ores.result) >= 3
    /\ ores.result[3].chunk_index = 2

(***************************************************************************)
(* Properties of the cache (SpecCache) and of the provider interface       *)
(* (SpecOps).                                                              *)
(***************************************************************************)
\* C18: a get of a key right after a set of it that returned, the entry not
\* yet expired, returns a value equal to the one stored; a get of a key
\* without an entry (never set, or expired) returns absent.  ores.args is
\* <<value, ttl>> for set.
C18_RoundTrip ==
    [][/\ (/\ ores.op = "cache.set"
           /\ ores.outcome = "ok"
           /\ ores'.op = "cache.get"
           /\ ores'.key = ores.key
           /\ MakeKey(ores.key) \in DOMAIN cache)
          => ores'.result = [found |-> TRUE, value |-> ores.args[1]]
       /\ (/\ ores' # ores
           /\ ores'.op = "cache.get"
           /\ MakeKey(ores'.key) \notin DOMAIN cache)
          => ~ ores'.result.found]_vars

\* C19: an operation of the provider interface called with a provider key it
\* has no branch for raises the configuration error and runs no provider's
\* code.
C19_FailFast ==
    (ores.op \in LLMOps /\ ores.key \notin Supported(ores.op)) =>
        /\ ores.outcome = "raise"
        /\ ores.error = "ValueError"
        /\ ores.branch = "unsupported"

\* C20: with the provider key "mock" and no credentials every operation of
\* the provider interface completes without error, and generate returns a
\* non-empty text with token counts of at least 1.
C20_MockNeverFails ==
    (ores.op \in LLMOps /\ ores.key = "mock" /\ clients = {}) =>
        /\ ores.outcome = "ok"
        /\ ores.op = "generate" =>
              /\ ores.result.response # ""
              /\ ores.result.prompt_tokens >= 1
              /\ ores.result.completion_tokens >= 1
              /\ ores.result.total_tokens >= 1
(***************************************************************************)
(* Deployments.                                                            *)
(***************************************************************************)
\* The stated machine: pending -> building or deploying, building or
\* deploying -> running, running -> stopped, any state -> failed.
StatedTransition(from, to) ==
    \/ from = "pending" /\ to \in {"building", "deploying"}
    \/ from \in {"building", "deploying"} /\ to = "running"
    \/ from = "running" /\ to = "stopped"
    \/ to = "failed"

\* C22: every change of a deployment's status, by create, start, stop,
\* redeploy, delete and the worker's update_status, is a transition of the
\* stated machine, and a created deployment starts in pending.
C22_StatedMachine ==
    [][\A id \in DOMAIN deployments' :
          IF id \in DOMAIN deployments
          THEN deployments'[id].status # deployments[id].status
                  => StatedTransition(deployments[id].status,
                                      deployments'[id].status)
          ELSE deployments'[id].status = "pending"]_vars

\* C23: a deployment's version is 1 plus the number of its updates and
\* redeploys that succeeded, under every interleaving of the requests.
C23_VersionCounts ==
    \A id \in DOMAIN deployments :
       deployments[id].version = 1 + dres.applied[id]

\* C30: a start, stop, update or redeploy request that found the deployment
\* in status deleted leaves its status and its version as they are.
C30_DeletedTerminal ==
    [][\A s \in Sessions :
          (/\ dreqs[s].op \in {"update", "start", "stop", "redeploy"}
           /\ dreqs[s].status = "deleted"
           /\ dreqs'[s] = NoDeployReq)
             => deployments'[dreqs[s].id] = deployments[dreqs[s].id]]_vars

(***************************************************************************)
(* Ingestion: the temporary file, concurrent ingestions and deletions.     *)
(***************************************************************************)
\* C24: when process_document has returned, completed or failed at the
\* extraction, the chunking, the embedding or the upsert, the temporary file
\* it wrote is removed.
C24_TmpFileRemoved ==
    (/\ ires.op = "process"
     /\ ires.outcome = "returned"
     /\ ires.fail \in {"none", "extract", "chunk", "embed", "upsert"})
        => ires.id \notin tmpfiles

AllTasksDone ==
    /\ nextDoc > MaxTasks
    /\ \A id \in DOMAIN tasks : tasks[id].pc = "done"

\* C25: once concurrent ingestions of distinct documents into one collection
\* have all finished, every completed document has exactly one point per
\* chunk index 0..chunk_count-1 and no other point, each point carries the
\* vector the document's own ingestion wrote, and chunk_count is the number
\* of the document's points.
C25_ConcurrentIngestions ==
    AllTasksDone =>
       \A id \in DOMAIN tasks :
          documents[id].status = "completed" =>
             LET own == PointsOf("c1", id) IN
             /\ Cardinality(own) = documents[id].chunk_count
             /\ \A i \in 0..(documents[id].chunk_count - 1) :
                   Cardinality({p \in own : p.chunk_index = i}) = 1
             /\ \A p \in own : p.vector = tasks[id].vector

\* Two ingestions that ran at the same time both completed.
C25_Witness ==
    /\ AllTasksDone
    /\ \A id \in 1..MaxTasks : documents[id].status = "completed"
    /\ \E id \in 1..MaxTasks : tasks[id].concurrent
    /\ \E id \in 1..MaxTasks : documents[id].chunk_count > 1

\* C26: once an ingestion and the deletion of its document have both
\* finished, the vector store holds no point of a document without a row.
C26_NoOrphans ==
    \A id \in DOMAIN tasks :
       (tasks[id].pc = "done" /\ tasks[id].del = "done")
          => (id \notin DOMAIN documents => PointsOf("c1", id) = {})

(***************************************************************************)
(* The synchronous query's failures.                                       *)
(***************************************************************************)
\* C27: a query() call that raises (the retrieval, the generation, the
\* rebuilding of a cached response or the caching raised) leaves the cache
\* as it was, and after a failed miss the same query still misses.
C27_FailureLeavesCache ==
    [][(QueryStepped /\ qres'.outcome = "raise")
          => /\ cache' = cache
             /\ ~ qres'.hit => ~ CacheGet(cache', qres'.key).found]_vars

\* A query whose generation raised after a successful retrieval, beside an
\* entry another query left in the cache.
C27_Witness ==
    /\ qres.outcome = "raise"
    /\ ~ qres.hit
    /\ qres.calls = <<"cache.get", "search", "generate">>
    /\ cache # <<>>

(***************************************************************************)
(* Rate limiting.                                                          *)
(***************************************************************************)
\* C28: between the creation of the counter key and its expiry at most
\* RateLimitRequests calls for the identifier are allowed, under every
\* interleaving of the calls.
C28_AtMostLimit == admitted <= RateLimitRequests

\* C29: a counter key that exists has an expiry, also when the key expired
\* between a call's GET and its INCR.
C29_KeyExpires == ratekey.exists => ratekey.expires

(***************************************************************************)
(* Authentication.                                                         *)
(***************************************************************************)
\* The request carries no bearer credentials, or a token that is invalid,
\* expired or not of type "access".
Unauthenticated(credentials) ==
    \/ ~ credentials.present
    \/ credentials.signature # "valid"
    \/ credentials.expired
    \/ credentials.type # "access"

\* C21: a request to a protected endpoint without bearer credentials or with
\* an invalid, expired or non-access token is answered 401, the handler body
\* does not run, and no deployment, document, point or cache entry changes.
C21_Unauthorized ==
    [][Unauthenticated(ares'.credentials)
          => /\ ares'.status_code = 401
             /\ ~ ares'.handler_ran
             /\ UNCHANGED <<deployments, dres, documents, points, cache>>]_vars

\* A create request with a well-signed, unexpired refresh token of an active
\* user was refused and no deployment exists.
C21_Witness ==
    /\ ares.called
    /\ ares.endpoint = "create_deployment"
    /\ ares.credentials.present
    /\ ares.credentials.signature = "valid"
    /\ ~ ares.credentials.expired
    /\ ares.credentials.type = "refresh"
    /\ ares.credentials.sub \in ActiveUsers
    /\ ares.status_code = 401
    /\ deployments = <<>>

====
